---- MODULE Spec2Model ----
(***************************************************************************)
(* A model of site2llms.py: the crawl loop of generate_llms_txt (frontier, *)
(* visited set, streamed document) and the ContextCompressor (layout       *)
(* normalisation, noise classification, crawl-wide redundancy counting).   *)
(*                                                                         *)
(* A Python str is a sequence of one-character strings.  The backquote is  *)
(* written BQ, because the character cannot be written in a TLA+ string.   *)
(***************************************************************************)
EXTENDS Integers, Sequences, FiniteSets, TLC

(***************************************************************************)
(* Characters and the str methods the program uses.                        *)
(***************************************************************************)
BQ == "BACKQUOTE"

LowerCase == << "a","b","c","d","e","f","g","h","i","j","k","l","m",
                "n","o","p","q","r","s","t","u","v","w","x","y","z" >>
UpperCase == << "A","B","C","D","E","F","G","H","I","J","K","L","M",
                "N","O","P","Q","R","S","T","U","V","W","X","Y","Z" >>
Letters == { LowerCase[i] : i \in 1..26 } \cup { UpperCase[i] : i \in 1..26 }
Digits == { "0","1","2","3","4","5","6","7","8","9" }

\* str.strip()/rstrip() with no argument remove these (the whitespace of the model's alphabet)
Whitespace == { " ", "\t", "\n", "\r", "\f" }
\* str.splitlines() breaks a line at each of these, and at "\r\n" as one break
LineBreaks == { "\n", "\r", "\f" }

IsSpace(c) == c \in Whitespace
\* the regular expression class \w; \W is its complement
IsWord(c) == c \in Letters \/ c \in Digits \/ c = "_"

\* str.lower() of one character
LowerChar(c) ==
    IF \E i \in 1..26 : UpperCase[i] = c
    THEN LowerCase[CHOOSE i \in 1..26 : UpperCase[i] = c]
    ELSE c
Lower(s) == [ i \in 1..Len(s) |-> LowerChar(s[i]) ]

\* the first index j >= i with s[j] in chars; Len(s) + 1 when there is none
FirstIn(s, i, chars) ==
    CHOOSE j \in i..(Len(s) + 1) :
        /\ j = Len(s) + 1 \/ s[j] \in chars
        /\ \A k \in i..(j - 1) : s[k] \notin chars
\* the first index j >= i with s[j] not in chars; Len(s) + 1 when there is none
FirstNotIn(s, i, chars) ==
    CHOOSE j \in i..(Len(s) + 1) :
        /\ j = Len(s) + 1 \/ s[j] \notin chars
        /\ \A k \in i..(j - 1) : s[k] \in chars
\* the last index j with s[j] not in chars; 0 when there is none
LastNotIn(s, chars) ==
    CHOOSE j \in 0..Len(s) :
        /\ j = 0 \/ s[j] \notin chars
        /\ \A k \in (j + 1)..Len(s) : s[k] \in chars

LStrip(s) == SubSeq(s, FirstNotIn(s, 1, Whitespace), Len(s))
RStrip(s) == SubSeq(s, 1, LastNotIn(s, Whitespace))
Strip(s) == LStrip(RStrip(s))

StartsWith(s, p) == Len(s) >= Len(p) /\ SubSeq(s, 1, Len(p)) = p

\* sep.join(parts)
RECURSIVE Join(_, _)
Join(parts, sep) ==
    IF parts = << >> THEN << >>
    ELSE IF Len(parts) = 1 THEN parts[1]
    ELSE parts[1] \o sep \o Join(Tail(parts), sep)

\* s.find(sep, i - 1) + 1: where sep first occurs at or after index i; 0 when nowhere
Find(s, sep, i) ==
    IF \E j \in i..(Len(s) - Len(sep) + 1) : SubSeq(s, j, j + Len(sep) - 1) = sep
    THEN CHOOSE j \in i..(Len(s) - Len(sep) + 1) :
            /\ SubSeq(s, j, j + Len(sep) - 1) = sep
            /\ \A k \in i..(j - 1) : SubSeq(s, k, k + Len(sep) - 1) # sep
    ELSE 0

\* s.split(sep): cut at each occurrence of sep found scanning left to right;
\* j is where sep first occurs at or after i
RECURSIVE SplitAt(_, _, _, _)
SplitAt(s, sep, i, j) ==
    IF j = 0 THEN << SubSeq(s, i, Len(s)) >>
    ELSE << SubSeq(s, i, j - 1) >>
         \o SplitAt(s, sep, j + Len(sep), Find(s, sep, j + Len(sep)))
Split(s, sep) == SplitAt(s, sep, 1, Find(s, sep, 1))

\* s.splitlines(): the lines without their breaks; no empty last line after a
\* final break; j is where the line that starts at i ends
RECURSIVE LinesAt(_, _, _)
AfterBreak(s, j) == IF s[j] = "\r" /\ j < Len(s) /\ s[j + 1] = "\n" THEN j + 2 ELSE j + 1
LinesAt(s, i, j) ==
    IF i > Len(s) THEN << >>
    ELSE IF j > Len(s) THEN << SubSeq(s, i, Len(s)) >>
    ELSE << SubSeq(s, i, j - 1) >>
         \o LinesAt(s, AfterBreak(s, j), FirstIn(s, AfterBreak(s, j), LineBreaks))
splitlines(s) == LinesAt(s, 1, FirstIn(s, 1, LineBreaks))

\* re.sub(r'\n{3,}', '\n\n', s): of every run of "\n" only the first two stay;
\* the next run is s[j..k-1]
RECURSIVE CollapseAt(_, _, _, _)
CollapseAt(s, i, j, k) ==
    IF j > Len(s) THEN SubSeq(s, i, Len(s))
    ELSE SubSeq(s, i, j - 1)
         \o (IF k - j >= 3 THEN << "\n", "\n" >> ELSE SubSeq(s, j, k - 1))
         \o CollapseAt(s, k, FirstIn(s, k, { "\n" }),
                       FirstNotIn(s, FirstIn(s, k, { "\n" }), { "\n" }))
CollapseNewlines(s) ==
    CollapseAt(s, 1, FirstIn(s, 1, { "\n" }), FirstNotIn(s, FirstIn(s, 1, { "\n" }), { "\n" }))

(***************************************************************************)
(* ContextCompressor                                                       *)
(***************************************************************************)
\* ContextCompressor(redundancy_threshold=3)
redundancy_threshold == 3

\* noise_patterns[0]: ^(back to top|read more|next|previous|menu|close)$, re.I
NavPhrases ==
    { << "b","a","c","k"," ","t","o"," ","t","o","p" >>,
      << "r","e","a","d"," ","m","o","r","e" >>,
      << "n","e","x","t" >>,
      << "p","r","e","v","i","o","u","s" >>,
      << "m","e","n","u" >>,
      << "c","l","o","s","e" >> }
MatchesNav(s) == Lower(s) \in NavPhrases
\* noise_patterns[1]: ^© \d{4}
MatchesCopyright(s) ==
    /\ Len(s) >= 6
    /\ s[1] = "©"
    /\ s[2] = " "
    /\ \A i \in 3..6 : s[i] \in Digits
\* noise_patterns[2]: ^\s*[\W_]+\s*$  (whitespace is in \W, so: one or more
\* characters, none of them a letter or a digit)
MatchesSymbols(s) ==
    /\ Len(s) >= 1
    /\ \A i \in 1..Len(s) : ~IsWord(s[i]) \/ s[i] = "_"

\* the MD5 hex digest of the trimmed text, represented by the trimmed text
\* itself: the digest is taken to be free of collisions on the model's blocks
hash_block(text) == Strip(text)

is_noise(line) ==
    \/ Len(Strip(line)) < 3
    \/ MatchesNav(Strip(line))
    \/ MatchesCopyright(Strip(line))
    \/ MatchesSymbols(Strip(line))

\* [line.rstrip() for line in lines]
rstrip_each(lines) == [ i \in 1..Len(lines) |-> RStrip(lines[i]) ]
\* a layout normalisation without the re.sub of line 73
normalize_layout_no_collapse(text) ==
    IF text = << >> THEN << >>
    ELSE Strip(Join(rstrip_each(splitlines(text)), << "\n" >>))
normalize_layout(text) ==
    IF text = << >> THEN << >>
    ELSE Strip(CollapseNewlines(Join(rstrip_each(splitlines(text)), << "\n" >>)))

\* block_hashes.get(h, 0)
GetCount(hashes, h) == IF h \in DOMAIN hashes THEN hashes[h] ELSE 0
\* block_hashes[h] = n
SetCount(hashes, h, n) ==
    [ k \in DOMAIN hashes \cup {h} |-> IF k = h THEN n ELSE hashes[k] ]

\* line 113: "if current_count >= self.redundancy_threshold: continue"
over_threshold(current_count) == current_count >= redundancy_threshold
\* a count that starts again once the threshold is reached
counted_afresh(current_count) ==
    IF current_count >= redundancy_threshold THEN 1 ELSE current_count + 1
\* line 110: "self.block_hashes[h] = current_count + 1", before the test of line 113
counted(current_count) == current_count + 1

\* a guard that only spares the code
IsStructural_code_only(block) == StartsWith(block, << BQ >>)
\* the guard of the redundancy check: not a header (#), not code (backquote)
IsStructural(block) == StartsWith(block, << "#" >>) \/ StartsWith(block, << BQ >>)

\* a noise block that is dropped, but counted like a block of text
on_noise_counted(st, block) ==
    [ st EXCEPT !.hashes = SetCount(@, hash_block(block),
                                    GetCount(@, hash_block(block)) + 1),
                !.trace = Append(@, [ block |-> block, kept |-> FALSE ]) ]
\* lines 100-101: "if self.is_noise(block): continue"
on_noise(st, block) ==
    [ st EXCEPT !.trace = Append(@, [ block |-> block, kept |-> FALSE ]) ]

\* one pass of the loop "for block in blocks" on the trimmed block b, from
\* st = [hashes, clean, trace]; trace records, for every non-empty block the
\* loop has looked at, the block and whether it was appended to clean_blocks
CompressStep(st, raw) ==
    LET block == Strip(raw)
    IN  IF block = << >> THEN st
        ELSE IF is_noise(block)
        THEN on_noise(st, block)
        ELSE IF ~IsStructural(block)
        THEN LET h == hash_block(block)
                 current_count == GetCount(st.hashes, h)
                 skip == over_threshold(current_count)
             IN  [ hashes |-> SetCount(st.hashes, h, counted(current_count)),
                   clean  |-> IF skip THEN st.clean ELSE Append(st.clean, block),
                   trace  |-> Append(st.trace, [ block |-> block, kept |-> ~skip ]) ]
        ELSE [ st EXCEPT !.clean = Append(@, block),
                         !.trace = Append(@, [ block |-> block, kept |-> TRUE ]) ]

RECURSIVE CompressLoop(_, _)
CompressLoop(st, blocks) ==
    IF blocks = << >> THEN st
    ELSE CompressLoop(CompressStep(st, Head(blocks)), Tail(blocks))

\* compress(markdown_text) on a compressor whose block_hashes is hashes:
\* the text returned, the block_hashes left behind, and the trace of the loop
compress(markdown_text, hashes) ==
    IF markdown_text = << >>
    THEN [ text |-> << >>, hashes |-> hashes, trace |-> << >> ]
    ELSE LET blocks == Split(normalize_layout(markdown_text), << "\n", "\n" >>)
             st == CompressLoop([ hashes |-> hashes, clean |-> << >>, trace |-> << >> ],
                                blocks)
         IN  [ text |-> Join(st.clean, << "\n", "\n" >>),
               hashes |-> st.hashes,
               trace |-> st.trace ]

(***************************************************************************)
(* URLs: urllib.parse.urlparse and urljoin as the program uses them, on    *)
(* URLs without whitespace, ";" or non-ASCII characters; then clean_url    *)
(* and is_in_scope.                                                        *)
(***************************************************************************)
\* what an operator yields when the Python call raises ValueError
ValueError == << "ValueError" >>

SchemeChars == Letters \cup Digits \cup { "+", "-", "." }
NetlocEnd == { "/", "?", "#" }
\* the part of s before the first sep, and the part after it (s.split(sep, 1))
Before(s, sep) ==
    LET j == Find(s, sep, 1) IN IF j = 0 THEN s ELSE SubSeq(s, 1, j - 1)
After(s, sep) ==
    LET j == Find(s, sep, 1) IN IF j = 0 THEN << >> ELSE SubSeq(s, j + 1, Len(s))

\* urlparse(url): ok is FALSE when it raises ValueError("Invalid IPv6 URL").
\* The parts are taken off from the left, each found once and handed on:
\* rest2 is what follows the netloc, rest3 is rest2 without its fragment
parse_from_path(scheme, netloc, rest2, rest3) ==
    [ ok       |-> Find(netloc, << "[" >>, 1) = 0 <=> Find(netloc, << "]" >>, 1) = 0,
      scheme   |-> scheme,
      netloc   |-> netloc,
      path     |-> Before(rest3, << "?" >>),
      query    |-> After(rest3, << "?" >>),
      fragment |-> After(rest2, << "#" >>) ]
\* rest1 is what follows the scheme, e is where its netloc ends
parse_from_netloc(scheme, rest1, e) ==
    CHOOSE parsed \in
        { parse_from_path(scheme,
                          IF StartsWith(rest1, << "/", "/" >>) THEN SubSeq(rest1, 3, e - 1)
                          ELSE << >>,
                          rest2, rest3) :
          rest2 \in { SubSeq(rest1, e, Len(rest1)) },
          rest3 \in { Before(SubSeq(rest1, e, Len(rest1)), << "#" >>) } } : TRUE
parse_from_scheme(scheme, rest1) ==
    CHOOSE parsed \in
        { parse_from_netloc(scheme, rest1, e) :
          e \in { IF StartsWith(rest1, << "/", "/" >>) THEN FirstIn(rest1, 3, NetlocEnd)
                  ELSE 1 } } : TRUE
\* i is where the first ":" of url is
has_scheme(url, i) ==
    /\ i > 1
    /\ url[1] \in Letters
    /\ \A k \in 1..(i - 1) : url[k] \in SchemeChars
urlparse(url) ==
    CHOOSE parsed \in
        { IF has_scheme(url, i)
          THEN parse_from_scheme(Lower(SubSeq(url, 1, i - 1)), SubSeq(url, i + 1, Len(url)))
          ELSE parse_from_scheme(<< >>, url) :
          i \in { Find(url, << ":" >>, 1) } } : TRUE

\* urlunparse((scheme, netloc, path, '', query, fragment))
UsesNetloc == { << >>, << "h","t","t","p" >>, << "h","t","t","p","s" >>, << "f","t","p" >> }
urlunparse(scheme, netloc, path, query, fragment) ==
    LET u1 == IF netloc # << >>
                 \/ (scheme # << >> /\ scheme \in UsesNetloc /\ ~StartsWith(path, << "/", "/" >>))
              THEN << "/", "/" >> \o netloc
                   \o (IF path # << >> /\ path[1] # "/" THEN << "/" >> ELSE << >>) \o path
              ELSE path
        u2 == IF scheme # << >> THEN scheme \o << ":" >> \o u1 ELSE u1
        u3 == IF query # << >> THEN u2 \o << "?" >> \o query ELSE u2
    IN  IF fragment # << >> THEN u3 \o << "#" >> \o fragment ELSE u3

\* the loop of urljoin that removes the dot segments
RECURSIVE ResolveSegments(_, _)
ResolveSegments(segments, resolved) ==
    IF segments = << >> THEN resolved
    ELSE LET seg == Head(segments)
         IN  ResolveSegments(Tail(segments),
                 IF seg = << ".", "." >>
                 THEN (IF resolved = << >> THEN resolved
                       ELSE SubSeq(resolved, 1, Len(resolved) - 1))
                 ELSE IF seg = << "." >> THEN resolved
                 ELSE Append(resolved, seg))

NonEmpty(seg) == seg # << >>
\* bpath.split('/') without its last part, unless that part is empty
base_parts(bpath) ==
    LET parts == Split(bpath, << "/" >>)
    IN  IF parts[Len(parts)] # << >> THEN SubSeq(parts, 1, Len(parts) - 1) ELSE parts
\* segments[1:-1] = filter(None, segments[1:-1])
filter_inner(segments) ==
    IF Len(segments) <= 2 THEN segments
    ELSE << segments[1] >>
         \o SelectSeq(SubSeq(segments, 2, Len(segments) - 1), NonEmpty)
         \o << segments[Len(segments)] >>
\* the segments of the joined path, before the dot segments are removed
join_segments(bpath, path) ==
    IF path[1] = "/" THEN Split(path, << "/" >>)
    ELSE filter_inner(base_parts(bpath) \o Split(path, << "/" >>))
\* '/'.join(resolved_path) or '/'
resolve_path(segments) ==
    LET resolved == ResolveSegments(segments, << >>)
        joined == Join(IF segments[Len(segments)] \in { << "." >>, << ".", "." >> }
                       THEN Append(resolved, << >>) ELSE resolved,
                       << "/" >>)
    IN  IF joined = << >> THEN << "/" >> ELSE joined

\* urljoin from the two parsed urls b = urlparse(base) and u = urlparse(url)
UsesRelative == UsesNetloc
join_parsed(b, u, url) ==
    IF ~b.ok \/ ~u.ok THEN ValueError
    ELSE IF u.scheme # << >> /\ u.scheme # b.scheme THEN url
    ELSE IF b.scheme \notin UsesRelative THEN url
    ELSE IF u.netloc # << >>
    THEN urlunparse(b.scheme, u.netloc, u.path, u.query, u.fragment)
    ELSE IF u.path = << >>
    THEN urlunparse(b.scheme, b.netloc, b.path,
                    IF u.query = << >> THEN b.query ELSE u.query, u.fragment)
    ELSE urlunparse(b.scheme, b.netloc, resolve_path(join_segments(b.path, u.path)),
                    u.query, u.fragment)

\* urljoin(base, url); ValueError when parsing either raises
urljoin(base, url) ==
    IF base = << >> THEN url
    ELSE IF url = << >> THEN base
    ELSE join_parsed(urlparse(base), urlparse(url), url)

\* a normalisation that removes the fragment only, as the docstring has it
clean_url_keeps_query(url) ==
    LET parsed == urlparse(url)
    IN  IF ~parsed.ok THEN ValueError
        ELSE parsed.scheme \o << ":", "/", "/" >> \o parsed.netloc \o parsed.path
                 \o (IF parsed.query = << >> THEN << >> ELSE << "?" >> \o parsed.query)
\* clean_url(url): scheme + "://" + netloc + path
clean_url(url) ==
    CHOOSE cleaned \in
        { IF ~parsed.ok THEN ValueError
          ELSE parsed.scheme \o << ":", "/", "/" >> \o parsed.netloc \o parsed.path :
          parsed \in { urlparse(url) } } : TRUE

(***************************************************************************)
(* The inputs of a run: what the user types at the two prompts, what the   *)
(* Content Extractor returns for a page, and the hrefs a page holds.       *)
(***************************************************************************)
\* answers to the first prompt, input(...).strip()
TypedDocsRoot ==
    << "h","t","t","p","s",":","/","/","d","o","c","s",".","e","x","a","m","p","l","e",".",
       "c","o","m","/" >>
TypedIntroNoScheme ==
    << "d","o","c","s",".","e","x","a","m","p","l","e",".","c","o","m","/","d","o","c","s",
       "/","i","n","t","r","o","#","t","o","p" >>
StartInputs == { TypedDocsRoot, TypedIntroNoScheme }
\* answers to the second prompt: empty, or a path to restrict the crawl to
ScopeDocs ==
    << "/","d","o","c","s","/" >>
PathScopes == { << >>, ScopeDocs }

\* the href attributes found on the pages
HrefIntro ==
    << "/","d","o","c","s","/","i","n","t","r","o" >>
HrefIntroQuery ==
    << "/","d","o","c","s","/","i","n","t","r","o","?","x","=","1","#","f","r","a","g" >>
HrefBlog ==
    << "/","b","l","o","g","/","p","o","s","t" >>
HrefRoot ==
    << "/" >>
HrefOther ==
    << "h","t","t","p","s",":","/","/","o","t","h","e","r",".","c","o","m","/" >>
HrefBadIPv6 ==
    << "h","t","t","p",":","/","/","[" >>
Hrefs == { HrefIntro, HrefIntroQuery, HrefBlog, HrefRoot, HrefOther, HrefBadIPv6 }

\* the urls clean_url and is_in_scope are called with on their own: every
\* concatenation of a scheme part, a host part, a path, a query and a fragment
SchemeParts ==
    { << >>,
      << "h","t","t","p","s",":" >>,
      << "h","t","t","p",":" >>,
      << "H","T","T","P",":" >>,
      << "f","t","p",":" >>,
      << "m","a","i","l","t","o",":" >> }
HostParts ==
    { << >>,
      << "/","/","d","o","c","s",".","e","x","a","m","p","l","e",".","c","o","m" >>,
      << "/","/","s","u","b",".","d","o","c","s",".","e","x","a","m","p","l","e",".","c","o","m" >>,
      << "/","/","o","t","h","e","r",".","c","o","m" >>,
      << "/","/","[" >> }
PathParts ==
    { << >>,
      << "/" >>,
      << "/","d","o","c","s","/","i","n","t","r","o" >>,
      << "/","b","l","o","g","/","p","o","s","t" >>,
      << "d","o","c","s","/","i","n","t","r","o" >> }
QueryParts ==
    { << >>,
      << "?","x","=","1" >> }
FragmentParts ==
    { << >>,
      << "#","f","r","a","g" >> }
UrlArgs ==
    { s \o h \o p \o q \o g :
        s \in SchemeParts, h \in HostParts, p \in PathParts, q \in QueryParts,
        g \in FragmentParts }

\* the texts normalize_layout is called with on its own: up to MaxLayoutLines
\* lines, each one of LayoutLines, with "\n" between them
MaxLayoutLines == 5
LayoutLines ==
    { << "a" >>, << "b", " ", "\t" >>, << >>, << " " >>, << "\r" >> }
RECURSIVE LayoutTextsOf(_)
LayoutTextsOf(n) ==
    IF n = 0 THEN { << >> }
    ELSE LayoutTextsOf(n - 1)
         \cup { t \o << "\n" >> \o l : t \in LayoutTextsOf(n - 1), l \in LayoutLines }
         \cup LayoutLines
LayoutArgs == LayoutTextsOf(MaxLayoutLines)

\* the Markdown that fetch_and_convert returns for a page
TextIntro ==
    << "#"," ","I","n","t","r","o","\n","\n","W","e","l","c","o","m","e"," ","t","o"," ",
       "t","h","e"," ","d","o","c","s","." >>
TitleIntro ==
    << "I","n","t","r","o" >>
TextRepeats ==
    << "#"," ","H","e","a","d","i","n","g","\n","\n","S","h","a","r","e","d"," ","d","i",
       "s","c","l","a","i","m","e","r",".","\n","\n","#"," ","H","e","a","d","i","n","g",
       "\n","\n","S","h","a","r","e","d"," ","d","i","s","c","l","a","i","m","e","r","." >>
\* one paragraph of 24 characters twice: 50 characters when both are kept
Text50 ==
    << "T","h","e"," ","q","u","i","c","k"," ","b","r","o","w","n"," ","f","o","x"," ","h",
       "o","p","s","\n","\n","T","h","e"," ","q","u","i","c","k"," ","b","r","o","w","n"," ",
       "f","o","x"," ","h","o","p","s" >>
Text51 ==
    << "T","h","e"," ","q","u","i","c","k"," ","b","r","o","w","n"," ","f","o","x"," ","j",
       "u","m","p","s"," ","o","v","e","r"," ","t","h","e"," ","l","a","z","y"," ","d","o",
       "g"," ","a","g","a","i","n","!","!" >>
TextNoisy ==
    << "B","a","c","k"," ","T","o"," ","T","o","p","\n","\n","-","-","-","-","\n","\n","#",
       " ","-","-","\n","\n","©"," ","2","0","2","3"," ","E","x","a","m","p","l","e"," ",
       "C","o","r","p","\n","\n",BQ,BQ,BQ,"\n","x"," ","="," ","1","\n",BQ,BQ,BQ," "," ",
       "\r","\n","\n","\n","\n",BQ,"x",BQ," ","i","s"," ","s","e","t",".","\n","\n","n","e",
       "x","t","\n","\n",BQ,"x",BQ," ","i","s"," ","s","e","t","." >>
Texts == { << >>, TextIntro, TextRepeats, Text50, Text51, TextNoisy }

\* the value None
None == << "None" >>
\* "if raw_markdown is not None:" would let the empty string through
Truthy_not_none(v) == v # None
\* "if raw_markdown:" is false for None and for the empty string
Truthy(v) == v # None /\ v # << >>

\* what fetch_and_convert(url) can return: (None, None), or the Markdown of the
\* content region with soup.title.string, or with the url when there is no title
Extractions(url) ==
    { [ raw_markdown |-> None, page_title |-> None ] }
    \cup { [ raw_markdown |-> t, page_title |-> IF t = TextIntro THEN TitleIntro ELSE url ]
           : t \in Texts }

\* at most this many <a href> elements on one page
MaxLinks == 2

(***************************************************************************)
(* The state of a run.                                                     *)
(***************************************************************************)
VARIABLES
    start_url,           \* module level, lines 11-13
    path_scope,          \* module level, line 16
    target_domain,       \* module level, line 22
    block_hashes,        \* compressor.block_hashes
    visited,             \* generate_llms_txt: the set visited
    to_visit,            \* generate_llms_txt: the list to_visit
    f,                   \* what has been written to the output file, in order
    pc,                  \* where generate_llms_txt is
    clean_current,       \* locals of the loop body
    raw_markdown,
    page_title,
    compressed_content,
    full_url,            \* locals of the loop of line 227, lines 228 and 229; dead
    final_url,           \*   once the loop is left, and forgotten then
    links_seen,          \* how many links of the page the loop of line 227 has taken
    links_added,         \* history: the entries the loop of line 227 has queued for the page
    popped,              \* history: the entries taken by to_visit.pop(0), each with
                         \*          the clean_current made of it, in order
    appended,            \* history: the entries put into to_visit, in order
    fetched,             \* history: the urls given to fetch_and_convert, in order
    link_fetched,        \* history: the urls requested at line 224, in order
    link_raised,         \* history: whether the last try block of lines 223-235 raised
    trace,               \* history: for every call of compress, in order, the blocks
                         \*          its loop has looked at, and which it kept
    called,              \* a helper called on its own: its name,
    arg,                 \*   the argument it is given,
    returned               \*   and what its calls have returned so far, in order

vars == << start_url, path_scope, target_domain, block_hashes, visited, to_visit, f, pc,
           clean_current, raw_markdown, page_title, compressed_content, links_seen,
           full_url, final_url, links_added, popped, appended, fetched, link_fetched, link_raised, trace,
           called, arg, returned >>

config == << start_url, path_scope, target_domain >>
locals == << clean_current, raw_markdown, page_title, compressed_content >>
link_locals == << full_url, final_url >>
helper_call == << called, arg, returned >>

\* lines 12-13: a start url that does not start with "http" gets "https://" in front
with_scheme(typed) ==
    IF StartsWith(typed, << "h","t","t","p" >>) THEN typed
    ELSE << "h","t","t","p","s",":","/","/" >> \o typed

\* a scope check that forgets the path scope
is_in_scope_any_path(url) ==
    /\ urlparse(url).netloc = target_domain
    /\ urlparse(url).scheme \in { << >>, << "h","t","t","p" >>, << "h","t","t","p","s" >> }
\* a scope check that turns away a url without a scheme
is_in_scope_scheme_required(url) ==
    /\ urlparse(url).netloc = target_domain
    /\ urlparse(url).scheme \in { << "h","t","t","p" >>, << "h","t","t","p","s" >> }
    /\ path_scope # << >> => StartsWith(urlparse(url).path, path_scope)
is_in_scope(url) ==
    \E parsed \in { urlparse(url) } :
        IF parsed.netloc # target_domain THEN FALSE
        ELSE IF parsed.scheme # << >>
                /\ parsed.scheme \notin { << "h","t","t","p" >>, << "h","t","t","p","s" >> }
        THEN FALSE
        ELSE IF path_scope # << >> /\ ~StartsWith(parsed.path, path_scope) THEN FALSE
        ELSE TRUE

\* the state when generate_llms_txt is called: the prompts answered, the
\* compressor constructed, nothing visited, the start url queued
Init ==
    /\ \E typed \in StartInputs :
         /\ start_url = with_scheme(typed)
         /\ target_domain = urlparse(with_scheme(typed)).netloc
    /\ path_scope \in PathScopes
    /\ block_hashes = << >>
    /\ visited = {}
    /\ to_visit = << start_url >>
    /\ f = << >>
    /\ pc = "open"
    /\ clean_current = None
    /\ raw_markdown = None
    /\ page_title = None
    /\ compressed_content = None
    /\ links_seen = 0
    /\ full_url = None
    /\ final_url = None
    /\ links_added = << >>
    /\ popped = << >>
    /\ appended = << start_url >>
    /\ fetched = << >>
    /\ link_fetched = << >>
    /\ link_raised = FALSE
    /\ trace = << >>
    /\ called = "none"
    /\ arg = None
    /\ returned = None

\* lines 184-190: the file is opened and the header written
WriteHeader ==
    /\ pc = "open"
    /\ f' = Append(f, [ kind |-> "header", domain |-> target_domain, source |-> start_url ])
    /\ pc' = "loop"
    /\ UNCHANGED << config, helper_call, link_locals, block_hashes, visited, to_visit, locals, links_seen,
                    links_added, popped, appended, fetched, link_fetched, link_raised, trace >>

\* a set that keeps only the url it is given
mark_visited_resets(seen, url) == { url }
\* a set that is never added to
mark_visited_forgets(seen, url) == seen
\* line 205
mark_visited(seen, url) == seen \cup { url }
\* to_visit.pop() would take the entry queued last
pop_last(queue) == Len(queue)
\* line 195: to_visit.pop(0) takes the head and leaves the rest
pop_index(queue) == 1
\* a pop that also loses the entry behind the one taken
without_two(queue, i) == SubSeq(queue, 1, i - 1) \o SubSeq(queue, i + 2, Len(queue))
without(queue, i) == SubSeq(queue, 1, i - 1) \o SubSeq(queue, i + 1, Len(queue))

\* lines 194-206: one entry is taken from the frontier and either dropped
\* (visited already, or out of scope) or marked visited and handed to the fetch
Dequeue ==
    /\ pc = "loop"
    /\ to_visit # << >>
    /\ \E clean \in { clean_url(to_visit[pop_index(to_visit)]) } :
           /\ to_visit' = without(to_visit, pop_index(to_visit))
           /\ popped' = Append(popped, [ entry |-> to_visit[pop_index(to_visit)],
                                         url |-> clean ])
           /\ clean_current' = clean
           /\ IF clean \in visited \/ ~is_in_scope(clean)
              THEN /\ visited' = visited
                   /\ pc' = "loop"
              ELSE /\ visited' = mark_visited(visited, clean)
                   /\ pc' = "fetch"
    /\ UNCHANGED << config, helper_call, link_locals, block_hashes, f, raw_markdown, page_title, compressed_content,
                    links_seen, links_added, appended, fetched, link_fetched,
                    link_raised, trace >>

\* line 216: "if len(compressed_content.strip()) > 50"
MinContentLength == 50
\* a gate that lets text of exactly the minimum length through
worth_writing_at_least(content) == Len(Strip(content)) >= MinContentLength
\* a gate that lets everything but blank text through
worth_writing_nonblank(content) == Len(Strip(content)) > 0
worth_writing(content) == Len(Strip(content)) > MinContentLength

\* lines 217-220: the four writes of one page section
section(title, url, content) ==
    [ kind |-> "section", title |-> title, url |-> url, content |-> content,
      separator |-> << "\n","\n","-","-","-","\n","\n" >> ]

\* lines 209-220: the page is fetched and converted; when there is Markdown it
\* is compressed and, if enough is left, written as a section
Fetch ==
    /\ pc = "fetch"
    /\ \E got \in Extractions(clean_current) :
         /\ raw_markdown' = got.raw_markdown
         /\ page_title' = got.page_title
         /\ fetched' = Append(fetched, clean_current)
         /\ IF Truthy(got.raw_markdown)
            THEN \E result \in { compress(got.raw_markdown, block_hashes) } :
                     /\ compressed_content' = result.text
                     /\ block_hashes' = result.hashes
                     /\ trace' = Append(trace, result.trace)
                     /\ f' = IF worth_writing(result.text)
                             THEN Append(f, section(got.page_title, clean_current, result.text))
                             ELSE f
                     /\ pc' = "links"
            ELSE /\ UNCHANGED << compressed_content, block_hashes, trace, f >>
                 /\ pc' = "loop"
    /\ UNCHANGED << config, helper_call, link_locals, visited, to_visit, clean_current, links_seen,
                    links_added, popped, appended, link_fetched, link_raised >>

\* line 229, on what urljoin returned
clean_joined(joined) ==
    IF joined = ValueError THEN ValueError ELSE clean_url(joined)
\* a queueing that does not look at what is queued already
append_new_unless_visited(queue, cleaned, seen) ==
    IF cleaned = ValueError THEN ValueError
    ELSE IF cleaned \notin seen /\ is_in_scope(cleaned)
    THEN Append(queue, cleaned)
    ELSE queue
\* lines 231-233: cleaned is queued when it is new and in scope
append_new(queue, cleaned, seen) ==
    IF cleaned = ValueError THEN ValueError
    ELSE IF /\ cleaned \notin seen
            /\ ~(\E i \in 1..Len(queue) : queue[i] = cleaned)
            /\ is_in_scope(cleaned)
    THEN Append(queue, cleaned)
    ELSE queue
\* lines 228-233: one pass of "for link in soup.find_all('a', href=True)" on
\* the frontier queue: the frontier after it, or ValueError when urljoin or
\* clean_url raises
add_link(queue, href, base, seen) ==
    append_new(queue, clean_joined(urljoin(base, href)), seen)

\* an exception that is not caught ends the run where it is
on_link_error_raises == "crashed"
\* lines 234-235: "except: pass" falls through to the next turn of the while loop
on_link_error == "loop"

\* lines 224-225: the page is requested again and parsed
RequestLinks ==
    /\ pc = "links"
    /\ link_fetched' = Append(link_fetched, clean_current)
    /\ link_raised' = FALSE
    /\ links_seen' = 0
    /\ links_added' = << >>
    /\ pc' = "link"
    /\ UNCHANGED << config, helper_call, link_locals, block_hashes, visited, to_visit, f, locals,
                    popped, appended, fetched, trace >>

\* lines 224-225, 234-235: the second request or the parse raises; nothing is queued
LinkRequestFails ==
    /\ pc = "links"
    /\ link_fetched' = Append(link_fetched, clean_current)
    /\ link_raised' = TRUE
    /\ links_seen' = 0
    /\ links_added' = << >>
    /\ pc' = on_link_error
    /\ UNCHANGED << config, helper_call, link_locals, block_hashes, visited, to_visit, f, locals,
                    popped, appended, fetched, trace >>

\* lines 227-235: the next link of the page; a ValueError ends the loop and is
\* swallowed by "except: pass"
NextLink ==
    /\ pc = "link"
    /\ links_seen < MaxLinks
    /\ \E href \in Hrefs :
         \E full \in { urljoin(clean_current, href) } :
         \E final \in { clean_joined(full) } :
         \E queue \in { append_new(to_visit, final, visited) } :
             IF queue = ValueError
             THEN /\ link_raised' = TRUE
                  /\ pc' = on_link_error
                  /\ full_url' = None
                  /\ final_url' = None
                  /\ UNCHANGED << to_visit, appended, links_seen, links_added >>
             ELSE /\ full_url' = full
                  /\ final_url' = final
                  /\ to_visit' = queue
                  /\ appended' = appended \o SubSeq(queue, Len(to_visit) + 1, Len(queue))
                  /\ links_added' =
                         links_added \o SubSeq(queue, Len(to_visit) + 1, Len(queue))
                  /\ links_seen' = links_seen + 1
                  /\ UNCHANGED << link_raised, pc >>
    /\ UNCHANGED << config, helper_call, block_hashes, visited, f, locals,
                    popped, fetched, link_fetched, trace >>

\* line 227: the page has no further link
LinksDone ==
    /\ pc = "link"
    /\ pc' = "loop"
    /\ full_url' = None
    /\ final_url' = None
    /\ UNCHANGED << config, helper_call, block_hashes, visited, to_visit, f, locals, links_seen,
                    links_added, popped, appended, fetched, link_fetched, link_raised, trace >>

\* lines 194, 237-238: the frontier is empty, the file is closed, the run ends
Finish ==
    /\ pc = "loop"
    /\ to_visit = << >>
    /\ pc' = "done"
    /\ UNCHANGED << config, helper_call, link_locals, block_hashes, visited, to_visit, f, locals, links_seen,
                    links_added, popped, appended, fetched, link_fetched, link_raised, trace >>

Next ==
    \/ WriteHeader
    \/ Dequeue
    \/ Fetch
    \/ RequestLinks
    \/ LinkRequestFails
    \/ NextLink
    \/ LinksDone
    \/ Finish

Spec == Init /\ [][Next]_vars

\* lines 209-211 when fetch_and_convert returns (None, None): the case of Fetch
\* in which nothing is compressed
FetchReturnsNothing ==
    /\ pc = "fetch"
    /\ raw_markdown' = None
    /\ page_title' = None
    /\ fetched' = Append(fetched, clean_current)
    /\ pc' = "loop"
    /\ UNCHANGED << compressed_content, block_hashes, trace, f >>
    /\ UNCHANGED << config, helper_call, link_locals, visited, to_visit, clean_current,
                    links_seen, links_added, popped, appended, link_fetched, link_raised >>
\* Next, with two of its cases named first: LinksDone and FetchReturnsNothing are
\* steps of Next, and where they can be taken Next is seen to be enabled
\* without a page being compressed or a link joined
Step == LinksDone \/ FetchReturnsNothing \/ Next

\* the interpreter runs generate_llms_txt on, one statement after the other, and
\* requests.get returns or raises within its timeout (lines 153 and 224): a
\* step that can be taken is taken
FairSpec == Spec /\ WF_vars(Step)

(***************************************************************************)
(* The helpers called on their own, with the module configured and         *)
(* generate_llms_txt not called: clean_url, is_in_scope, normalize_layout. *)
(***************************************************************************)
crawl == << block_hashes, visited, to_visit, f, pc, locals, link_locals, links_seen,
            links_added, popped, appended, fetched, link_fetched, link_raised, trace >>

FunInit ==
    /\ start_url = with_scheme(TypedDocsRoot)
    /\ target_domain = urlparse(with_scheme(TypedDocsRoot)).netloc
    /\ path_scope \in PathScopes
    /\ block_hashes = << >>
    /\ visited = {}
    /\ to_visit = << >>
    /\ f = << >>
    /\ pc = "module"
    /\ clean_current = None
    /\ raw_markdown = None
    /\ page_title = None
    /\ compressed_content = None
    /\ links_seen = 0
    /\ full_url = None
    /\ final_url = None
    /\ links_added = << >>
    /\ popped = << >>
    /\ appended = << >>
    /\ fetched = << >>
    /\ link_fetched = << >>
    /\ link_raised = FALSE
    /\ trace = << >>
    /\ called = "none"
    /\ arg \in UrlArgs \cup LayoutArgs
    /\ returned = << >>

\* clean_url(arg)
CallCleanUrl ==
    /\ called = "none"
    /\ arg \in UrlArgs
    /\ called' = "clean_url"
    /\ returned' = << clean_url(arg) >>
    /\ UNCHANGED << config, crawl, arg >>

\* clean_url(clean_url(arg)), when the first call has returned
CallCleanUrlAgain ==
    /\ called = "clean_url"
    /\ Len(returned) = 1
    /\ returned[1] # ValueError
    /\ returned' = Append(returned, clean_url(returned[1]))
    /\ UNCHANGED << config, crawl, called, arg >>

\* is_in_scope(arg); when urlparse at line 133 raises, nothing is returned
CallIsInScope ==
    /\ called = "none"
    /\ arg \in UrlArgs
    /\ called' = "is_in_scope"
    /\ returned' = IF urlparse(arg).ok THEN << is_in_scope(arg) >> ELSE << >>
    /\ UNCHANGED << config, crawl, arg >>

\* compressor.normalize_layout(arg)
CallNormalizeLayout ==
    /\ called = "none"
    /\ arg \in LayoutArgs
    /\ called' = "normalize_layout"
    /\ returned' = << normalize_layout(arg) >>
    /\ UNCHANGED << config, crawl, arg >>

FunNext ==
    \/ CallCleanUrl
    \/ CallCleanUrlAgain
    \/ CallIsInScope
    \/ CallNormalizeLayout

FunSpec == FunInit /\ [][FunNext]_vars

(***************************************************************************)
(* What the histories say: helpers of the properties below.                *)
(***************************************************************************)
Range(seq) == { seq[i] : i \in 1..Len(seq) }
NoDuplicates(seq) == \A i, j \in 1..Len(seq) : i # j => seq[i] # seq[j]
Last(seq) == seq[Len(seq)]

RECURSIVE IsSubsequence(_, _)
IsSubsequence(a, b) ==
    IF a = << >> THEN TRUE
    ELSE IF b = << >> THEN FALSE
    ELSE IF Head(a) = Head(b) THEN IsSubsequence(Tail(a), Tail(b))
    ELSE IsSubsequence(a, Tail(b))

RECURSIVE Flatten(_)
Flatten(seqs) == IF seqs = << >> THEN << >> ELSE Head(seqs) \o Flatten(Tail(seqs))

\* the page sections of the document, and their urls, in the order written
SectionIndexes == { i \in 1..Len(f) : f[i].kind = "section" }
HasSection(url) == \E i \in SectionIndexes : f[i].url = url
SectionsOf(doc) == SelectSeq(doc, LAMBDA r : r.kind = "section")
SectionUrls == [ i \in 1..Len(SectionsOf(f)) |-> SectionsOf(f)[i].url ]
PoppedUrls == [ i \in 1..Len(popped) |-> popped[i].url ]
PoppedEntries == [ i \in 1..Len(popped) |-> popped[i].entry ]

\* every block the compressor has looked at during the run, in order
Blocks == Flatten(trace)
\* the code-fence marker of Markdown, as the comment of line 104 writes it
CodeFence == << BQ, BQ, BQ >>
\* a heading block or a code block: one that starts with "#" or with the fence
HeaderOrCode(block) == StartsWith(block, << "#" >>) \/ StartsWith(block, CodeFence)
\* a block that is to take part in the redundancy count: not noise, no
\* heading, no code block
Eligible(block) == ~is_noise(block) /\ ~HeaderOrCode(block)
\* a block that line 105 lets take part in it: not noise, and starting neither
\* with "#" nor with a backquote
Counted(block) ==
    ~is_noise(block) /\ ~StartsWith(block, << "#" >>) /\ ~StartsWith(block, << BQ >>)
\* a paragraph that opens with inline code: no code block, yet starting with a backquote
OpensWithInlineCode(block) == Eligible(block) /\ ~Counted(block)
\* the how-manieth occurrence of its text the i-th of the blocks is
OccurrenceNo(blocks, i) == Cardinality({ j \in 1..i : blocks[j].block = blocks[i].block })
Occurrences(blocks, text) ==
    Cardinality({ j \in 1..Len(blocks) : Strip(blocks[j].block) = text })
KeptOccurrences(blocks, text) ==
    Cardinality({ j \in 1..Len(blocks) : blocks[j].block = text /\ blocks[j].kept })
KeptBlocks(call) ==
    [ i \in 1..Len(SelectSeq(call, LAMBDA e : e.kept)) |->
          SelectSeq(call, LAMBDA e : e.kept)[i].block ]

\* compress has just returned (line 213): the only place where trace and
\* block_hashes change, so what holds here of them holds throughout the run
Compressed == pc = "links"
\* the locals of the loop body are those of the page fetched last
AfterFetch == fetched # << >> /\ clean_current = Last(fetched)

(***************************************************************************)
(* C1  The visited set only grows, and a url that has entered it is never  *)
(* processed again: every url is marked at most once, what is fetched has  *)
(* been marked, no url is fetched twice and no url gets two sections.      *)
(***************************************************************************)
C1_State ==
    /\ NoDuplicates(fetched)
    /\ NoDuplicates(SectionUrls)
    /\ Range(fetched) \subseteq visited
    /\ Range(SectionUrls) \subseteq Range(fetched)
C1_Step ==
    /\ visited \subseteq visited'
    /\ \A url \in visited' \ visited : url \notin Range(fetched)
    /\ Len(fetched') > Len(fetched) => Last(fetched') \notin Range(fetched)
C1_VisitedOnlyGrows == [](C1_State) /\ [][C1_Step]_vars
\* a run that has ended with three urls visited, among them one that two pages
\* led to, each fetched once
C1_Witness ==
    /\ pc = "done"
    /\ Cardinality(visited) = 3
    /\ Len(fetched) = 3
    /\ Len(SectionUrls) >= 2
    /\ Len(link_fetched) >= 2

(***************************************************************************)
(* C2  A block that is neither noise nor a heading nor a code block is     *)
(* kept exactly when it is one of the first redundancy_threshold           *)
(* occurrences of its text over all the compress calls of the run: with a  *)
(* threshold of 3 the fourth and every later occurrence is dropped.        *)
(***************************************************************************)
C2_ThresholdLaw ==
    Compressed => \A blocks \in { Blocks } : \A i \in 1..Len(blocks) :
        Eligible(blocks[i].block) =>
            (blocks[i].kept <=> OccurrenceNo(blocks, i) <= redundancy_threshold)
\* the fourth occurrence of a paragraph that opens with inline code has been kept
C2_Witness ==
    Compressed /\ \E blocks \in { Blocks } : \E i \in 1..Len(blocks) :
        /\ OpensWithInlineCode(blocks[i].block)
        /\ OccurrenceNo(blocks, i) = 4
        /\ blocks[i].kept

\* What the code does keep to: the law of C2 for the blocks that start neither
\* with "#" nor with a backquote, and the text compress returns is the kept
\* blocks of the call joined by blank lines.
ThresholdLawAsCoded ==
    Compressed =>
        /\ \A blocks \in { Blocks } : \A i \in 1..Len(blocks) :
              Counted(blocks[i].block) =>
                  (blocks[i].kept <=> OccurrenceNo(blocks, i) <= redundancy_threshold)
        /\ compressed_content = Join(KeptBlocks(Last(trace)), << "\n", "\n" >>)
\* a counted text seen five times: the first three kept, the fourth and fifth dropped
FifthOccurrenceDropped ==
    Compressed /\ \E blocks \in { Blocks } : \E i \in 1..Len(blocks) :
        /\ Counted(blocks[i].block)
        /\ OccurrenceNo(blocks, i) = 5
        /\ ~blocks[i].kept
        /\ \A j \in 1..i :
              blocks[j].block = blocks[i].block =>
                  (blocks[j].kept <=> OccurrenceNo(blocks, j) <= 3)

(***************************************************************************)
(* C3  The count kept for a text is the number of blocks of that trimmed   *)
(* text seen so far that were neither noise nor heading nor code block,    *)
(* whether they were kept or dropped.                                      *)
(***************************************************************************)
C3_CountsEveryOccurrence ==
    Compressed => \A blocks \in { Blocks } : \A i \in 1..Len(blocks) :
        Eligible(blocks[i].block) =>
            /\ hash_block(blocks[i].block) \in DOMAIN block_hashes
            /\ block_hashes[hash_block(blocks[i].block)] =
                   Occurrences(blocks, hash_block(blocks[i].block))
\* a paragraph that opens with inline code has been seen, and has no count
C3_Witness ==
    Compressed /\ \E blocks \in { Blocks } : \E i \in 1..Len(blocks) :
        /\ OpensWithInlineCode(blocks[i].block)
        /\ hash_block(blocks[i].block) \notin DOMAIN block_hashes

\* What the code does keep to: the counts are those of the blocks that start
\* neither with "#" nor with a backquote, dropped ones included.
CountsAsCoded ==
    Compressed => \A blocks \in { Blocks } :
        /\ \A h \in DOMAIN block_hashes :
              /\ Counted(h)
              /\ block_hashes[h] = Occurrences(blocks, h)
        /\ \A i \in 1..Len(blocks) :
              Counted(blocks[i].block) =>
                  hash_block(blocks[i].block) \in DOMAIN block_hashes
\* a text counted six times although only three of its blocks were kept
DroppedAreCounted ==
    Compressed /\ \E h \in DOMAIN block_hashes :
        /\ block_hashes[h] = 6
        /\ KeptOccurrences(Blocks, h) = 3

(***************************************************************************)
(* C4  As stated: every block that starts with a heading marker or with    *)
(* the code fence is kept, however often its text has been seen.           *)
(***************************************************************************)
C4_StructuralAlwaysKept ==
    Compressed => \A blocks \in { Blocks } : \A i \in 1..Len(blocks) :
        HeaderOrCode(blocks[i].block) => blocks[i].kept

(***************************************************************************)
(* C4, amended  Every block that starts with a heading marker or with the  *)
(* code fence, and is not classified as noise, is kept, however often its  *)
(* text has been seen, and is not counted.                                 *)
(***************************************************************************)
C4_StructuralKeptUnlessNoise ==
    Compressed => \A blocks \in { Blocks } : \A i \in 1..Len(blocks) :
        (HeaderOrCode(blocks[i].block) /\ ~is_noise(blocks[i].block)) =>
            /\ blocks[i].kept
            /\ blocks[i].block \notin DOMAIN block_hashes
\* a header kept at its fifth occurrence
C4_Witness ==
    Compressed /\ \E blocks \in { Blocks } : \E i \in 1..Len(blocks) :
        /\ StartsWith(blocks[i].block, << "#" >>)
        /\ ~is_noise(blocks[i].block)
        /\ OccurrenceNo(blocks, i) = 5
        /\ blocks[i].kept

(***************************************************************************)
(* C5  As stated: a page with Markdown is discarded exactly when the       *)
(* trimmed length of its compressed text is below 50; a text of exactly    *)
(* 50 characters gets a section.                                           *)
(***************************************************************************)
C5_DiscardedBelowMinimum ==
    pc = "links" =>
        (HasSection(clean_current) <=> Len(Strip(compressed_content)) >= MinContentLength)

(***************************************************************************)
(* C5, amended  A page with Markdown is discarded exactly when the trimmed *)
(* length of its compressed text is at most 50: a text of 50 characters is *)
(* discarded, a text of 51 characters or more gets one section, and a page *)
(* with empty Markdown gets none.                                          *)
(***************************************************************************)
C5_DiscardedUpToMinimum ==
    /\ pc = "links" =>
          (HasSection(clean_current) <=> Len(Strip(compressed_content)) > MinContentLength)
    /\ (AfterFetch /\ raw_markdown = << >>) => ~HasSection(clean_current)
\* a page whose compressed text has 51 characters has got its section
C5_Witness ==
    /\ pc = "links"
    /\ Len(Strip(compressed_content)) = MinContentLength + 1
    /\ HasSection(clean_current)

(***************************************************************************)
(* C6  As stated: the run from "https://docs.example.com/" over a single   *)
(* page without in-scope links, whose Markdown is "# Intro" and "Welcome   *)
(* to the docs.", ends with exactly one section, of that url, whose        *)
(* content is the two blocks unmodified, followed by the separator.        *)
(***************************************************************************)
SinglePageRun(text) ==
    /\ pc = "done"
    /\ start_url = TypedDocsRoot
    /\ fetched = << TypedDocsRoot >>
    /\ raw_markdown = text
    /\ link_fetched = << TypedDocsRoot >>
    /\ appended = << TypedDocsRoot >>
C6_OneSectionForIntro ==
    SinglePageRun(TextIntro) =>
        SectionsOf(f) = << section(TitleIntro, TypedDocsRoot, TextIntro) >>

(***************************************************************************)
(* C6, amended  That run ends with a document of the header alone: the     *)
(* compressed text is the two blocks unmodified, and its 29 characters do  *)
(* not pass the gate of 50.  The same run over a page whose Markdown       *)
(* compresses to 60 characters ends with exactly one section, of that url, *)
(* with the compressed text unmodified as content, followed by the         *)
(* separator.                                                              *)
(***************************************************************************)
C6_NoSectionForIntro ==
    /\ SinglePageRun(TextIntro) =>
          /\ compressed_content = TextIntro
          /\ Len(f) = 1
          /\ f[1].kind = "header"
    /\ SinglePageRun(TextRepeats) =>
          /\ compressed_content = TextRepeats
          /\ Len(f) = 2
          /\ f[1].kind = "header"
          /\ f[2] = section(TypedDocsRoot, TypedDocsRoot, TextRepeats)
\* the run of the scenario has ended
C6_Witness == SinglePageRun(TextIntro) /\ Len(compressed_content) = 29

(***************************************************************************)
(* C7  A url is in visited before fetch_and_convert is called on it, and   *)
(* none is fetched twice; when fetch_and_convert returns None the url      *)
(* stays visited, nothing is written, the frontier and block_hashes are as *)
(* before, no link request is made, and the loop goes on.                  *)
(***************************************************************************)
C7_State ==
    /\ pc = "fetch" => (clean_current \in visited /\ clean_current \notin Range(fetched))
    /\ Range(fetched) \subseteq visited
    /\ NoDuplicates(fetched)
C7_Step ==
    (pc = "fetch" /\ raw_markdown' = None) =>
        /\ visited' = visited
        /\ clean_current \in visited'
        /\ f' = f
        /\ to_visit' = to_visit
        /\ appended' = appended
        /\ block_hashes' = block_hashes
        /\ link_fetched' = link_fetched
        /\ pc' = "loop"
C7_VisitedBeforeFetch == [](C7_State) /\ [][C7_Step]_vars
\* the second page of a run has just yielded nothing, another is waiting
C7_Witness ==
    /\ pc = "loop"
    /\ AfterFetch
    /\ raw_markdown = None
    /\ Len(fetched) = 2
    /\ clean_current \in visited
    /\ to_visit # << >>

(***************************************************************************)
(* C8  As stated: the links of a page are requested whenever               *)
(* fetch_and_convert returned something for it, and never when it returned *)
(* None.                                                                   *)
(***************************************************************************)
Attempted(url) == url \in Range(link_fetched)
\* what fetch_and_convert returned is text, and not the empty text
NonEmptyText(v) == v # None /\ v # << >>
\* the compressed text is longer, trimmed, than the minimum
Accepted(content) == Len(Strip(content)) > MinContentLength
C8_LinksIffExtracted ==
    (AfterFetch /\ pc \in { "loop", "done" }) =>
        (raw_markdown # None <=> Attempted(clean_current))

(***************************************************************************)
(* C8, amended  The links of a page are requested whenever                 *)
(* fetch_and_convert returned non-empty text for it, whether or not the    *)
(* compressed text passed the gate, and never when it returned None or     *)
(* empty text: only a page with non-empty text adds to the frontier.       *)
(***************************************************************************)
C8_State ==
    /\ (AfterFetch /\ pc \in { "loop", "done" }) =>
          (NonEmptyText(raw_markdown) <=> Attempted(clean_current))
    /\ Range(link_fetched) \subseteq Range(fetched)
    /\ NoDuplicates(link_fetched)
C8_Step ==
    /\ pc = "fetch" => (pc' = "links" <=> NonEmptyText(raw_markdown'))
    /\ appended' # appended =>
          /\ NonEmptyText(raw_markdown)
          /\ clean_current = Last(link_fetched)
          /\ clean_current = Last(fetched)
C8_LinksIffNonEmptyText == [](C8_State) /\ [][C8_Step]_vars
\* a page that the gate discarded has added a link to the frontier
C8_Witness ==
    /\ pc = "link"
    /\ AfterFetch
    /\ ~Accepted(compressed_content)
    /\ ~HasSection(clean_current)
    /\ links_added # << >>
    /\ Last(to_visit) = Last(links_added)

(***************************************************************************)
(* C9  As stated: when the try block of the link discovery raises, the     *)
(* section of the page, if it got one, is in the document, the page has    *)
(* added nothing to the frontier, and the loop goes on.                    *)
(***************************************************************************)
AfterLinks == link_fetched # << >> /\ clean_current = Last(link_fetched)
C9_FailureAddsNothing ==
    (link_raised /\ AfterLinks) =>
        /\ Accepted(compressed_content) => HasSection(clean_current)
        /\ links_added = << >>
        /\ pc \in { "loop", "done" }

(***************************************************************************)
(* C9, amended  When the try block of the link discovery raises, the       *)
(* section of the page, if it got one, is in the document, and the loop    *)
(* goes on; the page adds nothing to the frontier from then on: nothing at *)
(* all when the request or the parse raised, and when a link raised, the   *)
(* links queued before it stay in the frontier.                            *)
(***************************************************************************)
C9_State ==
    (link_raised /\ AfterLinks) =>
        /\ Accepted(compressed_content) => HasSection(clean_current)
        /\ Range(links_added) \subseteq Range(to_visit)
        /\ pc \in { "loop", "done" }
C9_Step ==
    (pc \in { "links", "link" } /\ link_raised') =>
        /\ pc' = "loop"
        /\ f' = f
        /\ to_visit' = to_visit
        /\ appended' = appended
        /\ visited' = visited
        /\ block_hashes' = block_hashes
        /\ pc = "links" => links_added' = << >>
        /\ pc = "link" => links_added' = links_added
C9_FailureKeepsEarlierLinks == [](C9_State) /\ [][C9_Step]_vars
\* a link has raised after another was queued; the section is there, the
\* queued link waits in the frontier
C9_Witness ==
    /\ link_raised
    /\ AfterLinks
    /\ pc = "loop"
    /\ HasSection(clean_current)
    /\ links_added # << >>
    /\ Last(to_visit) = Last(links_added)

(***************************************************************************)
(* C10  The frontier is first in, first out: what has been taken from it,  *)
(* followed by what is in it, is what was put into it, in that order.  The *)
(* urls fetched, and the urls of the sections, come in the order of the    *)
(* urls taken.  The header is written once, before any section.            *)
(***************************************************************************)
C10_FifoOrder ==
    /\ PoppedEntries \o to_visit = appended
    /\ IsSubsequence(fetched, PoppedUrls)
    /\ IsSubsequence(SectionUrls, PoppedUrls)
    /\ pc = "open" => f = << >>
    /\ pc # "open" =>
          /\ f # << >>
          /\ f[1].kind = "header"
          /\ \A i \in 2..Len(f) : f[i].kind = "section"
\* three urls taken in the order found, which is not their lexical order; the
\* first and the third have sections
C10_Witness ==
    /\ pc = "done"
    /\ PoppedUrls = << TypedDocsRoot,
                       clean_url(urljoin(TypedDocsRoot, HrefIntro)),
                       clean_url(urljoin(TypedDocsRoot, HrefBlog)) >>
    /\ SectionUrls = << PoppedUrls[1], PoppedUrls[3] >>

(***************************************************************************)
(* C11  Every url that is marked visited, fetched or given a section has   *)
(* the host target_domain, the scheme http or https and, when path_scope   *)
(* is set, a path that starts with it; a url that has not, the start url   *)
(* included, is dropped when it is taken from the frontier: it is neither  *)
(* marked visited nor fetched.                                             *)
(***************************************************************************)
Http == { << "h","t","t","p" >>, << "h","t","t","p","s" >> }
\* the scope predicate as the configuration defines it
InScopeAsStated(url) ==
    \E parsed \in { urlparse(url) } :
        /\ parsed.ok
        /\ parsed.netloc = target_domain
        /\ parsed.scheme \in Http
        /\ path_scope # << >> => StartsWith(parsed.path, path_scope)
C11_State ==
    /\ \A url \in visited : InScopeAsStated(url)
    /\ Range(fetched) \subseteq visited
    /\ Range(SectionUrls) \subseteq visited
    /\ pc = "fetch" => InScopeAsStated(clean_current)
C11_Step ==
    (pc = "loop" /\ popped' # popped /\ ~InScopeAsStated(Last(popped').url)) =>
        /\ visited' = visited
        /\ fetched' = fetched
        /\ pc' = "loop"
C11_ScopeEnforced == [](C11_State) /\ [][C11_Step]_vars
\* the start url was out of the path scope: the run has ended with nothing
\* visited, nothing fetched and the header alone in the file
C11_Witness ==
    /\ pc = "done"
    /\ path_scope # << >>
    /\ Len(popped) = 1
    /\ ~InScopeAsStated(popped[1].url)
    /\ visited = {}
    /\ fetched = << >>
    /\ Len(f) = 1

(***************************************************************************)
(* C14  Urls that differ only in the query string or the fragment are      *)
(* normalized to the same url, without query and fragment, and are one     *)
(* page to the crawl: a link that differs only so from a url that is       *)
(* visited or queued is not queued, and no two urls that differ only so    *)
(* are fetched.                                                            *)
(***************************************************************************)
\* url without its query string and its fragment
StripQueryFragment(url) == Before(Before(url, << "#" >>), << "?" >>)
HasQueryOrFragment(url) == Find(url, << "?" >>, 1) # 0 \/ Find(url, << "#" >>, 1) # 0
\* the loop of line 227 takes a link, and nothing raises
LinkTaken == pc = "link" /\ links_seen' = links_seen + 1
\* visited changes where a url is handed to the fetch, and only there
C14_State ==
    /\ Range(fetched) \subseteq visited
    /\ NoDuplicates(fetched)
    /\ pc = "fetch" =>
          /\ \A url \in visited : ~HasQueryOrFragment(url)
          /\ \A u, v \in visited :
                u # v => StripQueryFragment(u) # StripQueryFragment(v)
C14_Step ==
    LinkTaken =>
        /\ final_url' = clean_url(StripQueryFragment(full_url'))
        /\ ~HasQueryOrFragment(final_url')
        /\ links_added' \in { links_added, Append(links_added, final_url') }
        /\ (\E url \in visited \cup Range(to_visit) :
                StripQueryFragment(url) = StripQueryFragment(full_url'))
               => to_visit' = to_visit
ScopeCall == called = "is_in_scope"
UrlNoScheme ==
    << "/","/","d","o","c","s",".","e","x","a","m","p","l","e",".","c","o","m","/","d","o","c","s","/","i","n","t","r","o" >>
UrlDocsIntro ==
    << "h","t","t","p","s",":","/","/","d","o","c","s",".","e","x","a","m","p","l","e",".","c","o","m","/","d","o","c","s","/","i","n","t","r","o" >>
UrlBlogPost ==
    << "h","t","t","p","s",":","/","/","d","o","c","s",".","e","x","a","m","p","l","e",".","c","o","m","/","b","l","o","g","/","p","o","s","t" >>
\* C12 as stated: True exactly for host, http or https, and path prefix
C12_TrueIffHostHttpPath ==
    ScopeCall => (returned = << TRUE >> <=> InScopeAsStated(arg))
\* the predicate with the absent scheme let through
InScopeSchemeOptional(url) ==
    \E parsed \in { urlparse(url) } :
        /\ parsed.ok
        /\ parsed.netloc = target_domain
        /\ parsed.scheme \in Http \cup { << >> }
        /\ path_scope # << >> => StartsWith(parsed.path, path_scope)
\* C12 amended: True exactly for host, scheme http, https or absent, and path
\* prefix; with path_scope "/docs/", /docs/intro is accepted and /blog/post is not
C12_TrueIffHostSchemePath ==
    ScopeCall =>
        /\ returned = << TRUE >> <=> InScopeSchemeOptional(arg)
        /\ arg = UrlDocsIntro => returned = << TRUE >>
        /\ (arg = UrlBlogPost /\ path_scope = ScopeDocs) => returned = << FALSE >>
C12_Witness ==
    /\ ScopeCall
    /\ arg = UrlNoScheme
    /\ path_scope = ScopeDocs
    /\ returned = << TRUE >>

(***************************************************************************)
(* C13  clean_url(clean_url(u)) = clean_url(u) for every url u, those      *)
(* without a scheme included.  clean_url puts "://" behind an empty scheme *)
(* (line 129), and the second call does so again.                          *)
(***************************************************************************)
CleanedTwice == called = "clean_url" /\ Len(returned) = 2
\* C13: cleaning a cleaned url gives the same url
C13_Idempotent ==
    CleanedTwice => returned[2] = returned[1]
UrlRelative ==
    << "d","o","c","s","/","i","n","t","r","o" >>
C13_Witness ==
    /\ CleanedTwice
    /\ arg = UrlRelative
    /\ returned = << << ":","/","/","d","o","c","s","/","i","n","t","r","o" >>,
                     << ":","/","/",":","/","/","d","o","c","s","/","i","n","t","r","o" >> >>
\* what holds of the code: cleaning is idempotent on the urls that carry a scheme
IdempotentWithScheme ==
    (CleanedTwice /\ urlparse(arg).scheme # << >>) => returned[2] = returned[1]

(***************************************************************************)
(* C17  The result of normalize_layout has no line that ends in            *)
(* whitespace, no three line breaks in a row, and no blank line at its     *)
(* start or end; between two lines of text that follow each other, one     *)
(* break stays one, two stay two, and three or more become two.            *)
(***************************************************************************)
LayoutCall == called = "normalize_layout"
\* the positions of the lines that hold text, and the n-th of them
TextLines(lines) == { i \in 1..Len(lines) : RStrip(lines[i]) # << >> }
NthTextLine(lines, n) ==
    CHOOSE i \in TextLines(lines) : Cardinality({ k \in TextLines(lines) : k <= i }) = n
\* the line breaks between the n-th line of text and the next one
BreaksAfter(lines, n) == NthTextLine(lines, n + 1) - NthTextLine(lines, n)
EndsLine(text, i) == i = Len(text) \/ text[i + 1] = "\n"
LaidOut(before, after) ==
    /\ \A i \in 1..Len(after) :
          /\ EndsLine(after, i) => after[i] \notin Whitespace \ { "\n" }
          /\ after[i] \notin LineBreaks \ { "\n" }
    /\ \A i \in 1..(Len(after) - 2) :
          ~(after[i] = "\n" /\ after[i + 1] = "\n" /\ after[i + 2] = "\n")
    /\ after # << >> => after[1] # "\n" /\ after[Len(after)] # "\n"
    /\ \E ins \in { splitlines(before) } : \E outs \in { Split(after, << "\n" >>) } :
          /\ Cardinality(TextLines(outs)) = Cardinality(TextLines(ins))
          /\ \A n \in 1..Cardinality(TextLines(ins)) :
                Strip(outs[NthTextLine(outs, n)]) = Strip(ins[NthTextLine(ins, n)])
          /\ \A n \in 1..(Cardinality(TextLines(ins)) - 1) :
                BreaksAfter(outs, n) = IF BreaksAfter(ins, n) >= 3 THEN 2
                                       ELSE BreaksAfter(ins, n)
C17_LayoutNormalized ==
    LayoutCall => LaidOut(arg, returned[1])
TextRagged ==
    << "b"," ","\t","\n","\n","\n","\n","a" >>
C17_Witness ==
    /\ LayoutCall
    /\ arg = TextRagged
    /\ returned = << << "b","\n","\n","a" >> >>

(***************************************************************************)
(* C15  With finitely many urls in scope and every request returning, the  *)
(* loop empties the frontier and the run ends normally, and no url is      *)
(* given to fetch_and_convert twice.                                       *)
(***************************************************************************)
EndedNormally == pc = "done" /\ to_visit = << >>
OneFetchEach ==
    /\ NoDuplicates(fetched)
    /\ \A i \in 1..Len(fetched) :
          /\ ~HasQueryOrFragment(fetched[i])
          /\ InScopeAsStated(fetched[i])
C15_Terminates == <>EndedNormally /\ []OneFetchEach
C15_Witness ==
    /\ EndedNormally
    /\ Len(fetched) = 2
    /\ Len(link_fetched) = 1
    /\ link_raised

(***************************************************************************)
(* C16  A block that is_noise classifies as noise is never part of what    *)
(* compress returns and never takes part in the count: its text has no     *)
(* entry in block_hashes, and the counts add up to the number of blocks    *)
(* looked at that are not noise and that the guard of line 105 lets in.    *)
(***************************************************************************)
\* the sum of all counts
TotalCount ==
    Cardinality(UNION { { << h, k >> : k \in 1..block_hashes[h] } : h \in DOMAIN block_hashes })
C16_NoiseNeverKeptNorCounted ==
    Compressed => \A blocks \in { Blocks } :
        /\ \A i \in 1..Len(blocks) :
              is_noise(blocks[i].block) =>
                  /\ ~blocks[i].kept
                  /\ hash_block(blocks[i].block) \notin DOMAIN block_hashes
        /\ TotalCount = Cardinality({ i \in 1..Len(blocks) : Counted(blocks[i].block) })
        /\ compressed_content = Join(KeptBlocks(Last(trace)), << "\n", "\n" >>)
\* a noise text looked at twice, with other blocks counted
C16_Witness ==
    Compressed /\ \E blocks \in { Blocks } : \E i, j \in 1..Len(blocks) :
        /\ i < j
        /\ blocks[i].block = blocks[j].block
        /\ is_noise(blocks[i].block)
        /\ TotalCount >= 2

(***************************************************************************)
(* C18  The frontier holds only normalized urls, no url twice and no url   *)
(* that is visited; what the link loop appends is in scope, and it appends *)
(* a url exactly when that url is in scope, not visited and not queued.    *)
(* to_visit starts as [start_url] (line 181), the url as typed, which is   *)
(* normalized only when it is taken (line 196): as stated the claim fails  *)
(* for that first entry, and holds with it excepted.                       *)
(***************************************************************************)
Normalized(url) == ~HasQueryOrFragment(url) /\ clean_url(url) = url
\* the start url as line 181 queued it, not taken yet
StartEntry(i) == i = 1 /\ popped = << >> /\ to_visit[i] = start_url
FrontierSound ==
    /\ NoDuplicates(to_visit)
    /\ Range(to_visit) \cap visited = {}
    /\ \A i \in 2..Len(appended) : InScopeAsStated(appended[i])
\* the link loop appends the url it has made exactly when that url is in scope,
\* not visited and not queued, and nothing else appends
AppendedIffNew ==
    /\ LinkTaken =>
          to_visit' = IF /\ InScopeAsStated(final_url')
                         /\ final_url' \notin visited
                         /\ final_url' \notin Range(to_visit)
                      THEN Append(to_visit, final_url')
                      ELSE to_visit
    /\ Len(to_visit') > Len(to_visit) => LinkTaken
\* C18 as stated: every entry of the frontier is normalized
C18_FrontierNormalized ==
    /\ [](FrontierSound /\ \A i \in 1..Len(to_visit) : Normalized(to_visit[i]))
    /\ [][AppendedIffNew]_vars
\* C18 amended: every entry but the start url not yet taken is normalized
C18_FrontierNormalizedButStart ==
    /\ [](FrontierSound
          /\ \A i \in 1..Len(to_visit) : Normalized(to_visit[i]) \/ StartEntry(i))
    /\ [][AppendedIffNew]_vars
\* the page of a start url typed with a fragment: its first link was queued,
\* its second, to the same url, was not
C18_Witness ==
    /\ pc = "link"
    /\ ~Normalized(start_url)
    /\ Len(popped) = 1
    /\ links_seen = 2
    /\ links_added = << final_url >>
    /\ to_visit = << final_url >>

(***************************************************************************)
(* C19  block_hashes lives as long as the run and only grows: no entry is  *)
(* removed, no count goes down.  compress updates it for every page that   *)
(* has Markdown, before line 216 decides whether the page is written, so   *)
(* the occurrences on a discarded page count like any others: a text seen  *)
(* three times on discarded pages is dropped from every later page.        *)
(***************************************************************************)
\* compress is called on the page fetched, which is or is not written then
CompressCall == pc = "fetch" /\ pc' = "links"
\* how often text is among the blocks that call has looked at
SeenIn(call, text) == Cardinality({ i \in 1..Len(call) : call[i].block = text })
C19_Step ==
    /\ \A h \in DOMAIN block_hashes :
          h \in DOMAIN block_hashes' /\ block_hashes'[h] >= block_hashes[h]
    /\ block_hashes' # block_hashes => CompressCall
    /\ CompressCall =>
          \A call \in { Last(trace') } : \A i \in 1..Len(call) :
              Counted(call[i].block) =>
                  /\ block_hashes'[call[i].block]
                        = GetCount(block_hashes, call[i].block) + SeenIn(call, call[i].block)
                  /\ call[i].kept <=>
                        GetCount(block_hashes, call[i].block)
                          + SeenIn(SubSeq(call, 1, i - 1), call[i].block) < redundancy_threshold
C19_TrackerOnlyGrows == [][C19_Step]_vars
\* three pages with the same paragraph twice, none of them written: the third
\* and the fourth time the paragraph was seen on a page that was discarded,
\* and both paragraphs of the third page were dropped
C19_Witness ==
    /\ pc = "links"
    /\ Len(trace) = 3
    /\ Len(f) = 1
    /\ \E h \in DOMAIN block_hashes : block_hashes[h] = 6
    /\ compressed_content = << >>

(***************************************************************************)
(* C20  When the loop has ended the frontier is empty, and every in-scope  *)
(* url that was the start url or was found by a link loop that ran to that *)
(* link is visited and was fetched exactly once.  On the way there, such a *)
(* url is visited or queued from the moment it is found.                   *)
(***************************************************************************)
TimesFetched(url) == Cardinality({ k \in 1..Len(fetched) : fetched[k] = url })
\* what has been queued is still queued or has been taken, and what has been
\* taken and is in scope is visited and has had its one fetch
C20_State ==
    /\ \A i \in 1..Len(appended) :
          \/ \E k \in 1..Len(to_visit) : to_visit[k] = appended[i]
          \/ \E k \in 1..Len(popped) : popped[k].entry = appended[i]
    /\ \A k \in 1..Len(popped) :
          (InScopeAsStated(popped[k].url) /\ (pc = "fetch" => k < Len(popped))) =>
              /\ popped[k].url \in visited
              /\ TimesFetched(popped[k].url) = 1
    /\ pc = "done" => to_visit = << >>
\* a link found is, when in scope, visited or queued at once
C20_Step ==
    (LinkTaken /\ InScopeAsStated(final_url')) =>
        \/ final_url' \in visited'
        \/ \E k \in 1..Len(to_visit') : to_visit'[k] = final_url'
C20_AllInScopeVisited == [](C20_State) /\ [][C20_Step]_vars
\* a run that has ended: the start page led to two more pages, all three with
\* text and with their link loops run to the end, all three fetched once
C20_Witness ==
    /\ pc = "done"
    /\ to_visit = << >>
    /\ Len(appended) = 3
    /\ Len(link_fetched) = 3
    /\ ~link_raised
    /\ \A i \in 1..3 : appended[i] \in visited /\ TimesFetched(appended[i]) = 1

====
